---- MODULE Spec2Model ----
(***************************************************************************)
(* JustTuner: the YIN pitch detector (yin-algorithm section of             *)
(* src/src/tuner-ui.js), the smoothing / confidence gate of the detection  *)
(* loop and the start/stop session control (src/src/app.js), and the audio *)
(* handles of src/src/audio-input.js.                                      *)
(*                                                                         *)
(* Numbers.  JavaScript numbers are modelled as exact rationals plus the   *)
(* three non-finite values and `undefined` (the value of a typed-array     *)
(* read outside the array).  Rounding to float32/float64 is not modelled:  *)
(* samples are small integers, so every sum of products is exact, and the  *)
(* quotients are kept exact.                                               *)
(***************************************************************************)
EXTENDS Integers, Sequences, FiniteSets, TLC

VARIABLES
    \* ---- src/src/app.js
    isRunning,          \* let isRunning
    animationId,        \* let animationId (0 models null)
    frequencyHistory,   \* let frequencyHistory
    audioInitialized,   \* let audioInitialized
    disabled,           \* toggleButton.disabled
    display,            \* the argument of the last updateUI call
    \* ---- src/src/audio-input.js
    audioContext,       \* let audioContext: 0 (null) or the id of the context
    contextRate,        \* audioContext.sampleRate
    micStream,          \* let micStream: 0 (null) or the id of the stream
    \* ---- the browser
    pending,            \* ids of the requestAnimationFrame callbacks not yet run
    clicks,             \* per click of the toggle button: where its handler is
    liveStreams,        \* MediaStreams whose tracks have not been stopped
    openContexts,       \* AudioContexts that have not been closed
    \* ---- history of the run, for stating the properties
    lastHandler,        \* the handler that ran last
    processed,          \* the last handler ran detectPitch on a frame
    lastDetection,      \* the detection of the last frame processed
    passed,             \* the frequency the last frame handed to frequencyToNote
    goodRun,            \* frequencies of the confident frames since the last clear
    priorGate,          \* the frame before the last one failed the gate
    sessionGood,        \* confident frames of this session so far (capped at 2)
    gateCleared,        \* entries the latest gate failure of this session removed
    stoppedWith,        \* entries the latest stopTuning removed
    thrown,             \* where the last detectionLoop threw ("none": nowhere)
    attempts,           \* detectionLoop invocations of this session, modulo 2
    faults,             \* the calls in detectionLoop's try block may throw
    \* ---- a single call of a detector function, for the pure-function checks
    waveform,           \* the frame given to the call
    sampleRate,         \* its sample rate
    curve,              \* the CMNDF curve given to the call
    lagMin,             \* tauMin given to the call
    lagMax,             \* tauMax given to the call
    lag,                \* tau given to / returned by the call
    called,             \* which function was applied ("" before the call)
    returned,           \* the number it returned
    result,             \* the detection detectPitch returned
    touched             \* the indices of the CMNDF curve the call read

appVars == <<isRunning, animationId, frequencyHistory, audioInitialized, disabled,
             display, audioContext, contextRate, micStream, pending, clicks,
             liveStreams, openContexts, lastHandler, processed, lastDetection, passed,
             goodRun, priorGate, sessionGood, gateCleared, stoppedWith, thrown,
             attempts, faults>>
callVars == <<waveform, sampleRate, curve, lagMin, lagMax, lag, called, returned,
              result, touched>>
vars == <<appVars, callVars>>

-----------------------------------------------------------------------------
(* JavaScript numbers *)

Abs(x) == IF x < 0 THEN -x ELSE x
Max(a, b) == IF a > b THEN a ELSE b
Min(a, b) == IF a < b THEN a ELSE b

RECURSIVE Gcd(_, _)
Gcd(a, b) == IF b = 0 THEN a ELSE Gcd(b, a % b)

\* the finite number n/d (d # 0), in lowest terms with a positive denominator
Rat(n, d) ==
    LET s == IF d < 0 THEN -1 ELSE 1
        g == Gcd(Abs(n), Abs(d))
    IN  [k |-> "finite", n |-> (s * n) \div g, d |-> (s * d) \div g]

Num(i) == [k |-> "finite", n |-> i, d |-> 1]
NaN == [k |-> "NaN", n |-> 0, d |-> 0]
Infinity(sign) == [k |-> "Infinity", n |-> sign, d |-> 0]
Undefined == [k |-> "undefined", n |-> 0, d |-> 0]

IsFinite(a) == a.k = "finite"
IsNaNLike(a) == a.k \in {"NaN", "undefined"}   \* undefined converts to NaN
Sgn(a) == IF a.n < 0 THEN -1 ELSE IF a.n > 0 THEN 1 ELSE 0

\* a + b
Add(a, b) ==
    IF IsNaNLike(a) \/ IsNaNLike(b) THEN NaN
    ELSE IF IsFinite(a) /\ IsFinite(b)
         THEN LET g == Gcd(a.d, b.d)
              IN  Rat(a.n * (b.d \div g) + b.n * (a.d \div g), (a.d \div g) * b.d)
    ELSE IF ~IsFinite(a) /\ ~IsFinite(b) THEN (IF a.n = b.n THEN a ELSE NaN)
    ELSE IF IsFinite(a) THEN b ELSE a

\* -a
Neg(a) == IF IsNaNLike(a) THEN NaN ELSE [a EXCEPT !.n = -a.n]

\* a - b
Sub(a, b) == Add(a, Neg(b))

\* a * b
Mul(a, b) ==
    IF IsNaNLike(a) \/ IsNaNLike(b) THEN NaN
    ELSE IF IsFinite(a) /\ IsFinite(b)
         THEN LET g == Gcd(Abs(a.n), b.d)
                  h == Gcd(Abs(b.n), a.d)
              IN  Rat((a.n \div g) * (b.n \div h), (a.d \div h) * (b.d \div g))
    ELSE IF Sgn(a) = 0 \/ Sgn(b) = 0 THEN NaN
    ELSE Infinity(Sgn(a) * Sgn(b))

\* a / b  (a zero divisor is +0 here: it is a difference or a non-negative lag)
Div(a, b) ==
    IF IsNaNLike(a) \/ IsNaNLike(b) THEN NaN
    ELSE IF IsFinite(a) /\ IsFinite(b)
         THEN IF b.n = 0
              THEN (IF a.n = 0 THEN NaN ELSE Infinity(Sgn(a)))
              ELSE LET g == Gcd(Abs(a.n), Abs(b.n))
                       h == Gcd(a.d, b.d)
                   IN  Rat((a.n \div g) * (b.d \div h), (a.d \div h) * (b.n \div g))
    ELSE IF ~IsFinite(a) /\ ~IsFinite(b) THEN NaN
    ELSE IF IsFinite(a) THEN Num(0)
    ELSE Infinity(IF Sgn(b) < 0 THEN -Sgn(a) ELSE Sgn(a))

\* a < b  (false whenever an operand is NaN or undefined)
Lt(a, b) ==
    IF IsNaNLike(a) \/ IsNaNLike(b) THEN FALSE
    ELSE IF IsFinite(a) /\ IsFinite(b)
         THEN LET g == Gcd(a.d, b.d)
              IN  a.n * (b.d \div g) < b.n * (a.d \div g)
    ELSE IF ~IsFinite(a) /\ ~IsFinite(b) THEN a.n < b.n
    ELSE IF IsFinite(a) THEN b.n > 0 ELSE a.n < 0

\* array[i] of a typed array: undefined outside the array
At(array, i) == IF i >= 0 /\ i < Len(array) THEN array[i + 1] ELSE Undefined

-----------------------------------------------------------------------------
(* The YIN detector *)

MIN_FREQUENCY == 27
MAX_FREQUENCY == 5000
THRESHOLD == Rat(1, 10)

\* audioSamples.subarray(begin)
subarray(audioSamples, begin) == SubSeq(audioSamples, begin + 1, Len(audioSamples))

RECURSIVE acfLoop(_, _, _, _)
acfLoop(audioSamples, tau, x, limit) ==
    IF x < limit
    THEN audioSamples[x + 1] * audioSamples[x + tau + 1]
         + acfLoop(audioSamples, tau, x + 1, limit)
    ELSE 0

computeACF(audioSamples, tau) ==
    LET maxTau == Len(audioSamples) - 1
        limit == Len(audioSamples) - tau
    IN  IF tau < 0 \/ tau > maxTau THEN 0 ELSE acfLoop(audioSamples, tau, 0, limit)

computeDF(audioSamples, tau) ==
    LET r0 == computeACF(audioSamples, 0)
        rShift == computeACF(subarray(audioSamples, tau), 0)
        rTau == computeACF(audioSamples, tau)
    IN  r0 + rShift - 2 * rTau

\* cumulativeDF after the loop iteration for lag tau
RECURSIVE cumulativeDF(_, _)
cumulativeDF(audioSamples, tau) ==
    IF tau < 1 THEN 0
    ELSE cumulativeDF(audioSamples, tau - 1) + computeDF(audioSamples, tau)

computeCMNDF(audioSamples, tauMin, tauMax) ==
    LET startTau == Max(1, tauMin)
        maxTau == Min(tauMax, Len(audioSamples) - 1)
    IN  IF startTau > maxTau
        THEN [i \in 1..(maxTau + 1) |-> Num(0)]
        ELSE [i \in 1..(maxTau + 1) |->
                LET tau == i - 1
                    cum == cumulativeDF(audioSamples, tau)
                IN  IF tau = 0 \/ cum = 0 THEN Num(1)
                    ELSE Rat(computeDF(audioSamples, tau) * tau, cum)]

\* (mutant) the first crossing is returned as it is, without the descent
descendNever(cmndf, bestTauCandidate, tauMax, reads) ==
    [tau |-> bestTauCandidate, reads |-> reads]

\* the while loop of findBestTau: the lag it stops at and the indices it read
RECURSIVE descend(_, _, _, _)
descend(cmndf, bestTauCandidate, tauMax, reads) ==
    IF bestTauCandidate + 1 < tauMax
    THEN LET seen == reads \cup {bestTauCandidate + 1, bestTauCandidate}
         IN  IF Lt(At(cmndf, bestTauCandidate + 1), At(cmndf, bestTauCandidate))
             THEN descend(cmndf, bestTauCandidate + 1, tauMax, seen)
             ELSE [tau |-> bestTauCandidate, reads |-> seen]
    ELSE [tau |-> bestTauCandidate, reads |-> reads]

\* the for loop of findBestTau; tau = -1 when it ends without a crossing.
\* Past the end of the array every read is undefined and no comparison holds:
\* the remaining iterations only read, and are taken in one step.
RECURSIVE scan(_, _, _, _, _)
scan(cmndf, threshold, tau, tauMax, reads) ==
    IF tau < tauMax /\ tau >= Len(cmndf)
    THEN [tau |-> -1, reads |-> reads \cup (tau..(tauMax - 1))]
    ELSE IF tau < tauMax
    THEN IF Lt(At(cmndf, tau), threshold)
         THEN descend(cmndf, tau, tauMax, reads \cup {tau})
         ELSE scan(cmndf, threshold, tau + 1, tauMax, reads \cup {tau})
    ELSE [tau |-> -1, reads |-> reads]

\* the for loop of findGlobalMinIndex (past the end of the array as in scan)
RECURSIVE minLoop(_, _, _, _, _, _)
minLoop(array, i, end, minValue, minIndex, reads) ==
    IF i < end /\ i >= Len(array)
    THEN [tau |-> minIndex, reads |-> reads \cup (i..(end - 1))]
    ELSE IF i < end
    THEN IF Lt(At(array, i), minValue)
         THEN minLoop(array, i + 1, end, At(array, i), i, reads \cup {i})
         ELSE minLoop(array, i + 1, end, minValue, minIndex, reads \cup {i})
    ELSE [tau |-> minIndex, reads |-> reads]

findGlobalMinIndexRun(array, start, end) ==
    minLoop(array, start + 1, end, At(array, start), start, {start})

findGlobalMinIndex(array, start, end) == findGlobalMinIndexRun(array, start, end).tau

findBestTauRun(cmndf, threshold, tauMin, tauMax) ==
    LET crossing == scan(cmndf, threshold, tauMin, tauMax, {})
    IN  IF crossing.tau # -1 THEN crossing
        ELSE [tau |-> findGlobalMinIndex(cmndf, tauMin, tauMax),
              reads |-> crossing.reads
                        \cup findGlobalMinIndexRun(cmndf, tauMin, tauMax).reads]

findBestTau(cmndf, threshold, tauMin, tauMax) ==
    findBestTauRun(cmndf, threshold, tauMin, tauMax).tau

\* the indices of cmndf that refineTau reads
refineTauReads(cmndf, tau) ==
    IF tau < 1 \/ tau + 1 >= Len(cmndf) THEN {} ELSE {tau - 1, tau, tau + 1}

refineTau(cmndf, tau) ==
    IF tau < 1 \/ tau + 1 >= Len(cmndf) THEN Num(tau)
    ELSE LET numerator == Sub(At(cmndf, tau - 1), At(cmndf, tau + 1))
             denominator == Add(Sub(At(cmndf, tau - 1), Mul(Num(2), At(cmndf, tau))),
                                At(cmndf, tau + 1))
         IN  Add(Num(tau), Mul(Rat(1, 2), Div(numerator, denominator)))

null == [isNull |-> TRUE, frequency |-> Undefined, confidence |-> Undefined]

\* `if (!cmndf) return null` never returns: computeCMNDF always returns an array,
\* and an array is truthy
detectPitch(samples, rate) ==
    IF Len(samples) = 0 THEN null
    ELSE LET tauMin == rate \div MAX_FREQUENCY
             tauMax == rate \div MIN_FREQUENCY
             cmndf == computeCMNDF(samples, tauMin, tauMax)
             tau == findBestTau(cmndf, THRESHOLD, tauMin, tauMax)
             confidence == At(cmndf, tau)
             refinedTau == refineTau(cmndf, tau)
             frequency == Div(Num(rate), refinedTau)
         IN  IF Lt(frequency, Num(MIN_FREQUENCY)) \/ Lt(Num(MAX_FREQUENCY), frequency)
             THEN null
             ELSE [isNull |-> FALSE, frequency |-> frequency, confidence |-> confidence]

\* the indices of the CMNDF curve that one detectPitch call reads
detectPitchReads(samples, rate) ==
    LET tauMin == rate \div MAX_FREQUENCY
        tauMax == rate \div MIN_FREQUENCY
        cmndf == computeCMNDF(samples, tauMin, tauMax)
        found == findBestTauRun(cmndf, THRESHOLD, tauMin, tauMax)
    IN  found.reads \cup {found.tau} \cup refineTauReads(cmndf, found.tau)

-----------------------------------------------------------------------------
(* The application: src/src/app.js and src/src/audio-input.js *)

SMOOTHING_FRAMES == 3
CONFIDENCE_THRESHOLD == Rat(15, 100)

MaxClicks == 3
MaxRun == 4

NoDetection == [isNull |-> TRUE, frequency |-> Undefined, confidence |-> Undefined]
NoNote == [isNull |-> TRUE, frequency |-> Undefined]

\* the frames the analyser delivers and the sample rates of the audio context
\* (scaled down: a frame of 4096 samples at 44100 Hz is out of reach)
AppFrames ==
    { <<3, -4, 3, -3, 2, -3>>, <<3, -2, 3, -2, 3, -2, 1>>, <<1, 1, 1, 1>>,
      <<0, 0, 0>>, <<0>> }
AppSampleRates == {5000}

\* the frames delivered when the calls of the try block may throw: a confident
\* one and one without pitch
FaultFrames == { <<3, -4, 3, -3, 2, -3>>, <<1, 1, 1, 1>> }

\* detectPitch(waveform, audioCtx.sampleRate) for each frame and rate
detections == [rate \in AppSampleRates |-> [samples \in AppFrames |-> detectPitch(samples, rate)]]

RECURSIVE totalOf(_, _)
totalOf(array, i) ==
    IF i < Len(array) THEN Add(At(array, i), totalOf(array, i + 1)) ELSE Num(0)

average(array) ==
    IF Len(array) = 0 THEN Num(0) ELSE Div(totalOf(array, 0), Num(Len(array)))

\* frequencyToNote: null for a falsy (0, NaN) or non-positive frequency; of the
\* note only the frequency is kept
frequencyToNote(frequency) ==
    IF IsNaNLike(frequency) \/ frequency = Num(0) \/ Lt(frequency, Num(0))
    THEN NoNote
    ELSE [isNull |-> FALSE, frequency |-> frequency]

\* (mutant) any detection passes, whatever its confidence
passesGateAlways(detection) == ~detection.isNull

\* detection && detection.confidence < CONFIDENCE_THRESHOLD
passesGate(detection) ==
    ~detection.isNull /\ Lt(detection.confidence, CONFIDENCE_THRESHOLD)

\* (mutant) the newest entry is dropped instead of the oldest
pushFrequencyDropNewest(history, frequency) ==
    LET pushed == Append(history, frequency)
    IN  IF Len(pushed) > SMOOTHING_FRAMES THEN SubSeq(pushed, 1, SMOOTHING_FRAMES)
        ELSE pushed

\* frequencyHistory.push(frequency), then shift() when over SMOOTHING_FRAMES
pushFrequency(history, frequency) ==
    LET pushed == Append(history, frequency)
    IN  IF Len(pushed) > SMOOTHING_FRAMES THEN Tail(pushed) ELSE pushed

\* the try block of detectionLoop after detectPitch has returned `detection`:
\* the new history, the frequency handed to frequencyToNote and the note handed
\* to updateUI
processFrame(history, detection) ==
    IF passesGate(detection)
    THEN LET kept == pushFrequency(history, detection.frequency)
             avgFrequency == average(kept)
         IN  [history |-> kept, avgFrequency |-> avgFrequency,
              note |-> frequencyToNote(avgFrequency), detection |-> detection]
    ELSE [history |-> <<>>, avgFrequency |-> Undefined,
          note |-> NoNote, detection |-> detection]

\* requestAnimationFrame: a handle not in use
NewHandle(inUse) == CHOOSE h \in 1..(Cardinality(inUse) + 1) : h \notin inUse

\* the claim-side reading of a detection: confident, or failing the gate
Confident(detection) ==
    ~detection.isNull /\ Lt(detection.confidence, Rat(15, 100))
GateFailure(detection) ==
    detection.isNull
    \/ (IsFinite(detection.confidence) /\ ~Lt(detection.confidence, Rat(15, 100)))

\* where the try block of detectionLoop can throw: nowhere, in getWaveform or
\* detectPitch, in frequencyToNote, or in updateUI
Throws == {"none", "detectPitch", "frequencyToNote", "updateUI"}

\* (mutant) an exception ends the loop: nothing is scheduled after a throw
scheduledUnlessThrown(stillPending, outcome) ==
    IF outcome = "none" THEN stillPending \cup {NewHandle(stillPending)}
    ELSE stillPending

\* the callbacks pending when detectionLoop returns: requestAnimationFrame is
\* called once, after the try block or in its no-context branch
scheduled(stillPending, outcome) == stillPending \cup {NewHandle(stillPending)}

\* detectionLoop, entered with isRunning true and `history` as frequencyHistory;
\* `stillPending` are the callbacks still scheduled, `handler` who runs it.
\* getAudioContext() is null iff audioContext is (analyserNode is set and cleared
\* together with it).  An exception in the try block is caught and logged.
detectionLoopBody(history, ctx, rate, stillPending, handler, run, gateBefore, good) ==
    /\ lastHandler' = handler
    /\ IF ctx = 0
       THEN /\ frequencyHistory' = history
            /\ processed' = FALSE
            /\ goodRun' = run
            /\ thrown' = "none"
            /\ UNCHANGED <<display, lastDetection, passed, priorGate, sessionGood,
                           gateCleared>>
       ELSE \E outcome \in (IF faults THEN Throws ELSE {"none"}) :
         IF outcome = "detectPitch"
         THEN /\ thrown' = outcome
              /\ frequencyHistory' = history
              /\ processed' = FALSE
              /\ goodRun' = run
              /\ UNCHANGED <<display, lastDetection, passed, priorGate, sessionGood,
                             gateCleared>>
         ELSE \E samples \in (IF faults THEN FaultFrames ELSE AppFrames) :
              \E step \in {processFrame(history, detections[rate][samples])} :
                  /\ outcome = "frequencyToNote" => passesGate(step.detection)
                  /\ thrown' = outcome
                  /\ frequencyHistory' = step.history
                  /\ display' = IF thrown' = "frequencyToNote" THEN display
                                ELSE step.note
                  /\ processed' = TRUE
                  /\ lastDetection' = step.detection
                  /\ passed' = step.avgFrequency
                  /\ goodRun' = IF Confident(step.detection)
                                THEN Append(run, step.detection.frequency)
                                ELSE <<>>
                  /\ Len(goodRun') <= MaxRun
                  /\ priorGate' = gateBefore
                  /\ sessionGood' = IF Confident(step.detection)
                                    THEN Min(good + 1, 2) ELSE good
                  /\ gateCleared' = IF GateFailure(step.detection)
                                    THEN Len(history) ELSE gateCleared
    /\ animationId' = NewHandle(stillPending)
    /\ pending' = scheduled(stillPending, thrown')

\* startTuning, with the audio handles as they are when it is called
startTuning(mic, ctx, rate, live, open) ==
    /\ isRunning' = TRUE
    /\ audioInitialized' = TRUE
    /\ micStream' = mic
    /\ audioContext' = ctx
    /\ contextRate' = rate
    /\ liveStreams' = live
    /\ openContexts' = open
    /\ detectionLoopBody(<<>>, ctx, rate, pending, "startTuning", <<>>, FALSE, 0)
    /\ attempts' = 1
    /\ UNCHANGED stoppedWith

\* (mutant) stopTuning forgets the handle without cancelling the callback
cancelledNothing(handles, id) == handles

\* if (animationId) cancelAnimationFrame(animationId)
cancelled(handles, id) == IF id # 0 THEN handles \ {id} ELSE handles

\* what stopTuning does besides clearing the history
stopTuningRest(mic, ctx, live, open) ==
    /\ isRunning' = FALSE
    /\ pending' = cancelled(pending, animationId)
    /\ animationId' = 0
    /\ liveStreams' = live \ {mic}
    /\ micStream' = 0
    /\ openContexts' = open \ {ctx}
    /\ audioContext' = 0
    /\ contextRate' = 0
    /\ audioInitialized' = FALSE
    /\ display' = NoNote
    /\ lastHandler' = "stopTuning"
    /\ processed' = FALSE
    /\ lastDetection' = NoDetection
    /\ passed' = Undefined
    /\ goodRun' = <<>>
    /\ priorGate' = FALSE
    /\ sessionGood' = 0
    /\ gateCleared' = 0
    /\ stoppedWith' = Len(frequencyHistory)
    /\ thrown' = "none"
    /\ attempts' = 0

\* (mutant) stopTuning leaves the history as it is
stopTuningKeepsHistory(mic, ctx, live, open) ==
    /\ frequencyHistory' = frequencyHistory
    /\ stopTuningRest(mic, ctx, live, open)

\* stopTuning, with the audio handles as they are when it is called
stopTuning(mic, ctx, live, open) ==
    /\ frequencyHistory' = <<>>
    /\ stopTuningRest(mic, ctx, live, open)

\* the end of handleToggleClick
toggle(mic, ctx, rate, live, open) ==
    IF isRunning THEN stopTuning(mic, ctx, live, open)
    ELSE startTuning(mic, ctx, rate, live, open)

appState == <<isRunning, animationId, frequencyHistory, audioInitialized, display,
              audioContext, contextRate, micStream, pending, liveStreams,
              openContexts, processed, lastDetection, passed, goodRun, priorGate,
              sessionGood, gateCleared, stoppedWith, thrown, attempts>>

\* a click of the toggle button: handleToggleClick up to its first await, or to
\* its end when the audio is initialized.  initAudio returns at once when a
\* context exists; the handler then continues in the microtasks of this click.
HandleToggleClick(c) ==
    /\ ~disabled
    /\ clicks[c] = "none"
    /\ \A b \in 1..(c - 1) : clicks[b] # "none"
    /\ IF audioInitialized \/ audioContext # 0
       THEN /\ clicks' = [clicks EXCEPT ![c] = "done"]
            /\ toggle(micStream, audioContext, contextRate, liveStreams, openContexts)
       ELSE /\ clicks' = [clicks EXCEPT ![c] = "getUserMedia"]
            /\ lastHandler' = "click"
            /\ UNCHANGED appState
    /\ UNCHANGED <<disabled, faults, callVars>>

\* getUserMedia resolves for click c: initAudio builds the audio graph,
\* initializeAudio sets audioInitialized, handleToggleClick toggles
GetUserMediaResolves(c) ==
    /\ clicks[c] = "getUserMedia"
    /\ clicks' = [clicks EXCEPT ![c] = "done"]
    /\ \E rate \in AppSampleRates :
          toggle(c, c, rate, liveStreams \cup {c}, openContexts \cup {c})
    /\ UNCHANGED <<disabled, faults, callVars>>

\* getUserMedia rejects for click c: initializeAudio disables the button,
\* handleToggleClick returns unless the audio was initialized meanwhile
GetUserMediaRejects(c) ==
    /\ clicks[c] = "getUserMedia"
    /\ clicks' = [clicks EXCEPT ![c] = "done"]
    /\ disabled' = TRUE
    /\ IF ~audioInitialized
       THEN /\ lastHandler' = "denied"
            /\ UNCHANGED appState
       ELSE toggle(micStream, audioContext, contextRate, liveStreams, openContexts)
    /\ UNCHANGED <<faults, callVars>>

\* the browser runs a scheduled detectionLoop callback
AnimationFrame(h) ==
    /\ h \in pending
    /\ IF ~isRunning
       THEN /\ pending' = pending \ {h}
            /\ lastHandler' = "detectionLoop"
            /\ processed' = FALSE
            /\ UNCHANGED <<isRunning, animationId, frequencyHistory, audioInitialized,
                           display, audioContext, contextRate, micStream, liveStreams,
                           openContexts, lastDetection, passed, goodRun, priorGate,
                           sessionGood, gateCleared, stoppedWith, thrown,
                           attempts>>
       ELSE /\ detectionLoopBody(frequencyHistory, audioContext, contextRate,
                                 pending \ {h}, "detectionLoop", goodRun,
                                 processed /\ GateFailure(lastDetection), sessionGood)
            /\ attempts' = 1 - attempts
            /\ UNCHANGED <<isRunning, audioInitialized, audioContext, contextRate,
                           micStream, liveStreams, openContexts, stoppedWith>>
    /\ UNCHANGED <<disabled, clicks, faults, callVars>>

\* the window's beforeunload event runs stopAudio; the page may stay (the
\* navigation is cancelled, or it was a download), and app.js is not told
BeforeUnload ==
    /\ micStream # 0 \/ audioContext # 0
    /\ liveStreams' = liveStreams \ {micStream}
    /\ micStream' = 0
    /\ openContexts' = openContexts \ {audioContext}
    /\ audioContext' = 0
    /\ contextRate' = 0
    /\ lastHandler' = "stopAudio"
    /\ processed' = FALSE
    /\ UNCHANGED <<isRunning, animationId, frequencyHistory, audioInitialized,
                   disabled, display, pending, clicks, lastDetection, passed,
                   goodRun, priorGate, sessionGood, gateCleared, stoppedWith,
                   thrown, attempts, faults, callVars>>

-----------------------------------------------------------------------------
(* The application does not move while a single detector call is checked *)

AppStart(mayThrow) ==
    /\ faults = mayThrow
    /\ isRunning = FALSE
    /\ animationId = 0
    /\ frequencyHistory = <<>>
    /\ audioInitialized = FALSE
    /\ disabled = FALSE
    /\ display = NoNote
    /\ audioContext = 0
    /\ contextRate = 0
    /\ micStream = 0
    /\ pending = {}
    /\ clicks = [c \in 1..MaxClicks |-> "none"]
    /\ liveStreams = {}
    /\ openContexts = {}
    /\ lastHandler = "none"
    /\ processed = FALSE
    /\ lastDetection = NoDetection
    /\ passed = Undefined
    /\ goodRun = <<>>
    /\ priorGate = FALSE
    /\ sessionGood = 0
    /\ gateCleared = 0
    /\ stoppedWith = 0
    /\ thrown = "none"
    /\ attempts = 0

AppIdle == AppStart(FALSE)

NoCall ==
    /\ waveform = <<>>
    /\ sampleRate = 0
    /\ curve = <<>>
    /\ lagMin = 0
    /\ lagMax = 0
    /\ lag = 0
    /\ called = ""
    /\ returned = Undefined
    /\ result = NoDetection
    /\ touched = {}

-----------------------------------------------------------------------------
(* One call of detectPitch or computeDF on a frame *)

MaxFrameLen == 4
MaxPeriods == 2
Samples == {-1, 0, 1}
SampleRates == {100, 400, 5000, 5400}

\* all frames of n samples
RECURSIVE FramesOfLen(_)
FramesOfLen(n) ==
    IF n = 0 THEN {<<>>}
    ELSE {Append(f, s) : f \in FramesOfLen(n - 1), s \in Samples}

\* one period of A*sin(2*pi*i/p + phase), for the periods at which the samples
\* are integers for a suitable amplitude A and phase
SinePeriod(p) ==
    CASE p = 2 -> <<1, -1>>
      [] p = 3 -> <<0, 1, -1>>
      [] p = 4 -> <<0, 1, 0, -1>>
      [] p = 6 -> <<0, 1, 1, 0, -1, -1>>

SinePeriods == {2, 3, 4, 6}

\* n samples of the sine of period p
Sine(p, n) == [i \in 1..n |-> SinePeriod(p)[((i - 1) % p) + 1]]

SineFrames == {Sine(p, m * p) : p \in SinePeriods, m \in 2..MaxPeriods}

Frames == UNION {FramesOfLen(n) : n \in 0..MaxFrameLen} \cup SineFrames

InitYin ==
    /\ AppIdle
    /\ waveform \in Frames
    /\ sampleRate \in SampleRates
    /\ curve = <<>>
    /\ lagMin = 0
    /\ lagMax = 0
    /\ lag = 0
    /\ called = ""
    /\ returned = Undefined
    /\ result = NoDetection
    /\ touched = {}

CallDetectPitch ==
    /\ called = ""
    /\ called' = "detectPitch"
    /\ lagMin' = sampleRate \div MAX_FREQUENCY
    /\ lagMax' = sampleRate \div MIN_FREQUENCY
    /\ curve' = computeCMNDF(waveform, lagMin', lagMax')
    /\ lag' = IF Len(waveform) = 0 THEN 0
              ELSE findBestTau(curve', THRESHOLD, lagMin', lagMax')
    /\ returned' = IF Len(waveform) = 0 THEN Undefined ELSE refineTau(curve', lag')
    /\ result' = detectPitch(waveform, sampleRate)
    /\ touched' = IF Len(waveform) = 0 THEN {} ELSE detectPitchReads(waveform, sampleRate)
    /\ UNCHANGED <<waveform, sampleRate, appVars>>

CallComputeDF ==
    /\ called = ""
    /\ \E tau \in 1..(Len(waveform) - 1) :
          /\ lag' = tau
          /\ returned' = Num(computeDF(waveform, tau))
    /\ called' = "computeDF"
    /\ UNCHANGED <<waveform, sampleRate, curve, lagMin, lagMax, result, touched, appVars>>

NextYin == CallDetectPitch \/ CallComputeDF

SpecYin == InitYin /\ [][NextYin]_vars

-----------------------------------------------------------------------------
(* One call of findBestTau on a CMNDF curve, then refineTau on the lag found *)

MaxCurveLen == 4
CurveValues == {Rat(1, 20), Rat(2, 25), Rat(1, 10), Rat(1, 2), Num(1)}

RECURSIVE CurvesOfLen(_)
CurvesOfLen(n) ==
    IF n = 0 THEN {<<>>}
    ELSE {Append(c, v) : c \in CurvesOfLen(n - 1), v \in CurveValues}

Curves == UNION {CurvesOfLen(n) : n \in 1..MaxCurveLen}

InitCurve ==
    /\ AppIdle
    /\ waveform = <<>>
    /\ sampleRate = 0
    /\ curve \in Curves
    /\ lagMin \in 0..Len(curve)
    /\ lagMax \in lagMin..(Len(curve) + 1)
    /\ lag = 0
    /\ called = ""
    /\ returned = Undefined
    /\ result = NoDetection
    /\ touched = {}

CallFindBestTau ==
    /\ called = ""
    /\ called' = "findBestTau"
    /\ lag' = findBestTau(curve, THRESHOLD, lagMin, lagMax)
    /\ touched' = findBestTauRun(curve, THRESHOLD, lagMin, lagMax).reads
    /\ UNCHANGED <<waveform, sampleRate, curve, lagMin, lagMax, returned, result, appVars>>

CallRefineTau ==
    /\ called = "findBestTau"
    /\ called' = "refineTau"
    /\ returned' = refineTau(curve, lag)
    /\ touched' = touched \cup refineTauReads(curve, lag)
    /\ UNCHANGED <<waveform, sampleRate, curve, lagMin, lagMax, lag, result, appVars>>

NextCurve == CallFindBestTau \/ CallRefineTau

SpecCurve == InitCurve /\ [][NextCurve]_vars

-----------------------------------------------------------------------------
(* The running application *)

Init == AppIdle /\ NoCall

Next ==
    \/ \E c \in 1..MaxClicks : HandleToggleClick(c)
    \/ \E c \in 1..MaxClicks : GetUserMediaResolves(c)
    \/ \E c \in 1..MaxClicks : GetUserMediaRejects(c)
    \/ \E h \in pending : AnimationFrame(h)
    \/ BeforeUnload

Spec == Init /\ [][Next]_vars

\* the application when the browser calls made in detectionLoop's try block may
\* throw, and the browser delivers the animation frames it was asked for
InitFaulty == AppStart(TRUE) /\ NoCall

SpecFaulty ==
    InitFaulty /\ [][Next]_vars /\ WF_vars(\E h \in pending : AnimationFrame(h))

-----------------------------------------------------------------------------
(* Properties of the smoother and of the session control *)

RECURSIVE SumOf(_)
SumOf(frequencies) ==
    IF frequencies = <<>> THEN Num(0)
    ELSE Add(Head(frequencies), SumOf(Tail(frequencies)))

\* the last n entries of a sequence
LastOf(frequencies, n) ==
    SubSeq(frequencies, Len(frequencies) - n + 1, Len(frequencies))

\* C1: after a confident frame (a detection with confidence < 0.15) of a running
\* session, the history holds the frequencies of the latest min(k, 3) confident
\* frames in arrival order, k being the number of consecutive confident frames
\* since the history was last cleared, and the frequency handed to
\* frequencyToNote is their arithmetic mean
C1_SmootherWindow ==
    (isRunning /\ processed /\ Confident(lastDetection)) =>
        LET window == LastOf(goodRun, Min(Len(goodRun), 3))
        IN  /\ Len(goodRun) >= 1
            /\ frequencyHistory = window
            /\ Len(frequencyHistory) <= 3
            /\ Mul(passed, Num(Len(window))) = SumOf(window)

\* a fourth consecutive confident frame has pushed the first one out of a
\* window of different frequencies
C1_Witness ==
    /\ isRunning /\ processed /\ Confident(lastDetection)
    /\ Len(goodRun) > 3
    /\ goodRun[1] # goodRun[2] /\ goodRun[1] # goodRun[Len(goodRun)]
    /\ goodRun[2] # goodRun[3]

\* C2: a frame whose detection is "no pitch" or has confidence >= 0.15 leaves
\* the history empty and updates the display with null, whatever the history
\* held; the confident frame after it outputs its own frequency alone
C2_SmootherGate ==
    /\ (isRunning /\ processed /\ GateFailure(lastDetection)) =>
           /\ frequencyHistory = <<>>
           /\ display = NoNote
    /\ (isRunning /\ processed /\ priorGate /\ Confident(lastDetection)) =>
           /\ frequencyHistory = <<lastDetection.frequency>>
           /\ passed = lastDetection.frequency

\* a gate failure emptied a full history, and a confident frame followed it
C2_Witness ==
    /\ isRunning /\ processed /\ priorGate /\ Confident(lastDetection)
    /\ gateCleared = 3

\* C9 as stated: the history is empty right after every startTuning and every
\* stopTuning
C9_EmptyAfterStartAndStop ==
    lastHandler \in {"startTuning", "stopTuning"} => frequencyHistory = <<>>

\* C9: the history is empty right after every stopTuning and in every state
\* where the session is not running; startTuning empties it before it runs the
\* first frame of the session itself, so right after startTuning it holds at
\* most the frequency of that frame; the first confident frame of a session
\* outputs its own frequency alone
C9_SessionReset ==
    /\ lastHandler = "stopTuning" => frequencyHistory = <<>>
    /\ ~isRunning => frequencyHistory = <<>>
    /\ (lastHandler = "startTuning" /\ processed) =>
           frequencyHistory = IF Confident(lastDetection)
                              THEN <<lastDetection.frequency>> ELSE <<>>
    /\ (lastHandler = "startTuning" /\ ~processed) => frequencyHistory = <<>>
    /\ (isRunning /\ processed /\ Confident(lastDetection) /\ sessionGood = 1) =>
           /\ frequencyHistory = <<lastDetection.frequency>>
           /\ passed = lastDetection.frequency

\* a session was stopped while its history held entries, and the next session
\* has had its first confident frame
C9_Witness ==
    /\ isRunning /\ processed /\ Confident(lastDetection)
    /\ sessionGood = 1
    /\ stoppedWith > 0

\* no handleToggleClick is waiting for getUserMedia
NoInitPending == \A c \in 1..MaxClicks : clicks[c] # "getUserMedia"

\* C11: once stopTuning has run and no initialisation is pending, every
\* MediaStream obtained from getUserMedia has had its tracks stopped and every
\* AudioContext created has been closed
C11_FullReleaseOnStop ==
    (lastHandler = "stopTuning" /\ ~isRunning /\ NoInitPending) =>
        /\ liveStreams = {}
        /\ openContexts = {}

\* C12: while the session is running every invocation of detectionLoop, also
\* one whose try block throws, schedules exactly one further invocation; and
\* as long as animation frames are delivered, a running session goes on to
\* another invocation again and again (so a failed frame is followed by a
\* further attempt) unless stopTuning ends it.  `attempts` changes exactly when detectionLoop is
\* invoked in a running session: by startTuning (which consumes no callback) or
\* by an animation frame (which consumes one).
C12_LoopSurvivesBadFrame ==
    /\ [][(attempts' # attempts /\ isRunning') =>
            /\ animationId' \in pending'
            /\ Cardinality(pending') =
                  Cardinality(pending) + (IF isRunning THEN 0 ELSE 1)]_vars
    /\ \A b \in 0..1 : []<>(~isRunning \/ attempts # b)

\* a frame of a running session threw and the loop is scheduled again
C12_Witness ==
    /\ isRunning /\ lastHandler = "detectionLoop"
    /\ thrown # "none"
    /\ animationId \in pending

\* f is a finite frequency within [MIN_FREQUENCY, MAX_FREQUENCY]
InRange(f) ==
    /\ IsFinite(f)
    /\ ~Lt(f, Num(27))
    /\ ~Lt(Num(5000), f)

\* C13: every entry of the smoothing history is a finite frequency within
\* [27, 5000] Hz, and so is every averaged frequency handed to frequencyToNote.
\* (A flat run of the CMNDF below 0.15 around the chosen lag needs tauMin >= 3
\* and a frame of several periods of that lag; the frames of AppFrames do not
\* produce one.)
C13_HistoryInRange ==
    /\ \A i \in 1..Len(frequencyHistory) : InRange(frequencyHistory[i])
    /\ (isRunning /\ processed /\ Confident(lastDetection)) => InRange(passed)

\* C14: at most one detectionLoop callback is pending at any time, it is the
\* one animationId names, and none is pending when the session is not running;
\* so no step taken while the session stays stopped changes the history or the
\* display
C14_SingleLoop ==
    /\ [](/\ Cardinality(pending) <= 1
          /\ pending \subseteq {animationId}
          /\ ~isRunning => pending = {})
    /\ [][(~isRunning /\ ~isRunning') =>
            /\ frequencyHistory' = frequencyHistory
            /\ display' = display]_vars

\* a session started after an earlier one was stopped is running its loop
C14_Witness ==
    /\ isRunning /\ ~disabled
    /\ lastHandler = "detectionLoop"
    /\ Cardinality({c \in 1..MaxClicks : clicks[c] = "done"}) >= 3
    /\ pending = {animationId}

-----------------------------------------------------------------------------
(* Properties of the detector *)

IsSilent(frame) == Len(frame) >= 1 /\ \A i \in 1..Len(frame) : frame[i] = 0

\* C3: for an all-zero frame of any length >= 1 and any sample rate, detectPitch
\* returns "no pitch"; it never returns a result with a NaN or infinite frequency.
C3_SilentFrameIsNoPitch ==
    (called = "detectPitch" /\ IsSilent(waveform))
        => (result.isNull /\ result.frequency.k \notin {"NaN", "Infinity"})

\* C4: when tauMin exceeds tauMax clamped to frame.length - 1, detectPitch returns
\* "no pitch" for every frame content and every sample rate.  (The claim adds that
\* the search and the refinement do not run; in the code both run, and `touched`
\* holds what they read.)
C4_TooShortFrameIsNoPitch ==
    (called = "detectPitch" /\ Len(waveform) >= 1
        /\ lagMin > Min(lagMax, Len(waveform) - 1))
        => result.isNull

\* the parabola denominator cmndf[tau-1] - 2*cmndf[tau] + cmndf[tau+1]
Denominator(cmndf, tau) ==
    Add(Sub(At(cmndf, tau - 1), Mul(Num(2), At(cmndf, tau))), At(cmndf, tau + 1))

\* C5: when the chosen lag has both neighbours in the array and the parabola
\* denominator is zero, refinement falls back to the integer lag; the refined lag
\* is a finite number.
C5_ZeroDenominatorFallsBack ==
    (called = "refineTau" /\ lag >= 1 /\ lag + 1 < Len(curve)
        /\ Denominator(curve, lag) = Num(0))
        => (returned = Num(lag) /\ IsFinite(returned))

\* the lags of [lagMin, lagMax) whose CMNDF value is below the threshold
Crossings == {t \in lagMin..(lagMax - 1) : Lt(At(curve, t), THRESHOLD)}

\* the descent from lag t goes on to t + 1
Descends(t) == t + 1 < lagMax /\ Lt(At(curve, t + 1), At(curve, t))

\* the lag reached from the smallest crossing by advancing while the next value
\* is strictly smaller
ValleyLag ==
    LET first == CHOOSE t \in Crossings : \A u \in Crossings : t <= u
    IN  CHOOSE b \in first..(lagMax - 1) :
            /\ ~Descends(b)
            /\ \A t \in first..(b - 1) : Descends(t)

\* no value of the range is strictly smaller than the one at lag t
IsMinimum(t) == \A u \in lagMin..(lagMax - 1) : ~Lt(At(curve, u), At(curve, t))

\* the smallest index of the global minimum over [lagMin, lagMax)
GlobalMinLag ==
    CHOOSE t \in lagMin..(lagMax - 1) :
        /\ IsMinimum(t)
        /\ \A u \in lagMin..(t - 1) : ~IsMinimum(u)

\* C6: for lagMin < lagMax findBestTau returns the valley lag reached from the
\* smallest lag below the threshold (a lag below the threshold that is not followed
\* inside the range by a strictly smaller value), or, when no lag of the range is
\* below the threshold, the smallest index of the global minimum over the range;
\* the returned lag lies in [lagMin, lagMax).
C6_ThresholdSearch ==
    (called \in {"findBestTau", "refineTau"} /\ lagMin < lagMax)
        => /\ lag \in lagMin..(lagMax - 1)
           /\ Crossings # {} =>
                /\ lag = ValleyLag
                /\ Lt(At(curve, lag), THRESHOLD)
                /\ ~Descends(lag)
           /\ Crossings = {} => lag = GlobalMinLag

\* a search that crossed the threshold and then descended at least one lag
C6_Witness ==
    /\ called = "findBestTau"
    /\ lagMin < lagMax
    /\ Crossings # {}
    /\ lag > CHOOSE t \in Crossings : \A u \in Crossings : t <= u

\* the squared difference between the frame and its copy shifted by tau, over
\* their overlap
RECURSIVE SquaredDifference(_, _, _)
SquaredDifference(frame, tau, i) ==
    IF i > Len(frame) - tau - 1 THEN 0
    ELSE (frame[i + 1] - frame[i + tau + 1]) * (frame[i + 1] - frame[i + tau + 1])
         + SquaredDifference(frame, tau, i + 1)

\* C7: for every frame and every lag in 1..N-1 computeDF returns the sum over
\* i in 0..N-tau-1 of (x[i] - x[i+tau])^2.
C7_DifferenceIsSquaredDifference ==
    called = "computeDF" => returned = Num(SquaredDifference(waveform, lag, 0))

\* C8: when the lag chosen by the search has no in-array neighbour on one side,
\* detectPitch uses the integer lag unrefined, and no step of the search or the
\* refinement reads an element outside the CMNDF curve.
C8_BoundaryLagNoOutsideRead ==
    (called = "detectPitch" /\ Len(waveform) >= 1
        /\ (lag < 1 \/ lag + 1 >= Len(curve)))
        => (returned = Num(lag) /\ touched \subseteq 0..(Len(curve) - 1))

\* the frame is a sine of period p samples covering at least two periods
IsSine(frame, p) == Len(frame) >= 2 * p /\ frame = Sine(p, Len(frame))

\* a is within one percent of f
WithinOnePercent(a, f) ==
    /\ IsFinite(a)
    /\ ~Lt(a, Mul(Rat(99, 100), f))
    /\ ~Lt(Mul(Rat(101, 100), f), a)

\* C10: for a pure sine of frequency f in [27, 5000] Hz in a frame covering at
\* least two periods, detectPitch returns a frequency within 1% of f and a
\* confidence below THRESHOLD.
C10_SineAccuracy ==
    \A p \in SinePeriods :
        (called = "detectPitch" /\ IsSine(waveform, p)
            /\ ~Lt(Rat(sampleRate, p), Num(MIN_FREQUENCY))
            /\ ~Lt(Num(MAX_FREQUENCY), Rat(sampleRate, p)))
            => /\ ~result.isNull
               /\ WithinOnePercent(result.frequency, Rat(sampleRate, p))
               /\ Lt(result.confidence, THRESHOLD)

====
